---- MODULE Spec2Model ----
(***************************************************************************)
(* Model of the workflow engine of workflow_mgmg: the status enumerations  *)
(* and their transition tables (models.py), the retry policies             *)
(* (retry_policies.py), the workflow wrapper and the workstep retry loop   *)
(* (workflow.py), and the store they journal to.                           *)
(*                                                                         *)
(* The store is the committed content of the four tables.  Objects loaded  *)
(* into the wrapper's session (the workflow row, the workstep row) are     *)
(* in-memory copies; a session.commit() writes them to the store.  The     *)
(* lifecycle rows are added to and committed by the module-level session   *)
(* of models.py, inside set_status.  Every action runs the code up to and  *)
(* including its next commit (or its next call of the user function), so   *)
(* every state shows a committed store.                                    *)
(*                                                                         *)
(* Delays and base delays are counted in tenths of a second.               *)
(***************************************************************************)
EXTENDS Integers, Sequences, FiniteSets, TLC

VARIABLES
    wfTable,    \* workflow_instance: committed rows, index = id
    wsTable,    \* workstep_instance: committed rows, index = id
    wfJournal,  \* workflow_instance_lifecycle, in insertion order
    wsJournal,  \* workstep_instance_lifecycle, in insertion order
    wfObj,      \* the decorated workflow objects: wf_instance_id -> retry_policy attribute
    frame,      \* per workflow object: the execute wrapper's position and its loaded row
    stack,      \* the workflow objects whose execute is running, outermost first
    context,    \* _context.workflow_context of the thread
    call,       \* the workstep call in progress, or the last one ended
    now,        \* the clock read by datetime.now()
    ops,        \* number of constructions, execute calls and workstep calls counted so far
    probe,      \* a policy object under test and the last answers it gave
    pending     \* lifecycle rows added to the module's session and not yet committed

vars == <<wfTable, wsTable, wfJournal, wsJournal, wfObj, frame, stack, context, call, now, ops,
          probe, pending>>

----------------------------------------------------------------------------
(* Bounds of the model *)

\* the user code makes at most MaxOps constructions, execute calls and workstep calls
MaxOps == 4
\* the max_retries given to the policies of the decorations
MaxRetriesArg == 1

----------------------------------------------------------------------------
(* Status model: models.py *)

WorkflowStatus == {"INSTANTIATED", "RUNNING", "COMPLETED", "FAILED", "CANCELLED", "PENDING"}

WorkStepStatus == {"INSTANTIATED", "RUNNING", "COMPLETED", "FAILED", "CANCELLED",
                   "WAITING", "PENDING_COMPLETION"}

\* WorkflowStatus.next_states: the statuses COMPLETED and CANCELLED have no entry
WorkflowNextStates(s) ==
    CASE s = "INSTANTIATED" -> {"RUNNING"}
      [] s = "RUNNING" -> {"FAILED", "COMPLETED", "PENDING", "CANCELLED"}
      [] s = "FAILED" -> {"RUNNING", "CANCELLED"}
      [] s = "PENDING" -> {"COMPLETED", "CANCELLED"}
      [] OTHER -> {}

\* the statuses that are keys of valid_transitions in WorkflowStatus.next_states
WorkflowTransitionKeys == {"INSTANTIATED", "RUNNING", "FAILED", "PENDING"}

\* the statuses that are keys of valid_transitions in WorkStepStatus.next_states
WorkStepTransitionKeys ==
    {"INSTANTIATED", "RUNNING", "WAITING", "FAILED", "PENDING_COMPLETION"}

\* a workstep table in which a WAITING workstep can only resume
WorkStepNextStatesNoCancel(s) ==
    CASE s = "INSTANTIATED" -> {"RUNNING"}
      [] s = "RUNNING" -> {"WAITING", "FAILED", "COMPLETED", "PENDING_COMPLETION", "CANCELLED"}
      [] s = "WAITING" -> {"RUNNING"}
      [] s = "FAILED" -> {"RUNNING", "CANCELLED"}
      [] s = "PENDING_COMPLETION" -> {"COMPLETED", "CANCELLED"}
      [] OTHER -> {}

\* WorkStepStatus.next_states
WorkStepNextStates(s) ==
    CASE s = "INSTANTIATED" -> {"RUNNING"}
      [] s = "RUNNING" -> {"WAITING", "FAILED", "COMPLETED", "PENDING_COMPLETION", "CANCELLED"}
      [] s = "WAITING" -> {"RUNNING", "CANCELLED"}
      [] s = "FAILED" -> {"RUNNING", "CANCELLED"}
      [] s = "PENDING_COMPLETION" -> {"COMPLETED", "CANCELLED"}
      [] OTHER -> {}

\* is_final_state of both enumerations
IsFinalState(s) == s \in {"CANCELLED", "COMPLETED"}

----------------------------------------------------------------------------
(* Error kinds raised by user code and by the engine, with their base class *)

ErrorKinds == {"ValueError", "UnicodeError", "ConnectionError", "RuntimeError", "TypeError",
               "AttributeError", "Exception"}

BaseClass(k) ==
    CASE k = "UnicodeError" -> "ValueError"
      [] k = "ConnectionError" -> "Exception"
      [] k = "ValueError" -> "Exception"
      [] k = "RuntimeError" -> "Exception"
      [] k = "AttributeError" -> "Exception"
      [] OTHER -> "Exception"

\* a test by exact kind
IsInstanceExact(kind, k) == kind = k

\* isinstance(e, k) for an error e of kind kind
IsInstance(kind, k) ==
    \/ kind = k
    \/ BaseClass(kind) = k
    \/ BaseClass(BaseClass(kind)) = k

\* the kinds the modelled user functions raise
UserErrors == {"ValueError", "ConnectionError"}

----------------------------------------------------------------------------
(* Retry policies: retry_policies.py *)

NoTime == -1
NoError == "None"

\* an element of exclude_exceptions: an exception class, or a list of classes
ExcClass(k) == [tag |-> "class", name |-> k, items |-> <<>>]
ExcList(ks) == [tag |-> "list", name |-> "", items |-> ks]

DefaultMaxRetries == 3
DefaultBaseDelay == 10
DefaultMaxDelay == 600

\* RetryPolicy.__init__: ValueError first, then the argument appended as one element
BaseExclude(exclude_exceptions) ==
    IF exclude_exceptions # <<>>
    THEN <<ExcClass("ValueError"), ExcList(exclude_exceptions)>>
    ELSE <<ExcClass("ValueError")>>

NoPolicy ==
    [kind |-> "None", max_retries |-> 0, base_delay |-> 0, max_delay |-> 0,
     exclude_exceptions |-> <<>>, retryable_exceptions |-> <<>>]

LinearRetryPolicy(max_retries, base_delay, exclude_exceptions) ==
    [kind |-> "Linear", max_retries |-> max_retries, base_delay |-> base_delay,
     max_delay |-> 0, exclude_exceptions |-> BaseExclude(exclude_exceptions),
     retryable_exceptions |-> <<>>]

ExponentialRetryPolicy(max_retries, base_delay, max_delay, exclude_exceptions) ==
    [kind |-> "Exponential", max_retries |-> max_retries, base_delay |-> base_delay,
     max_delay |-> max_delay, exclude_exceptions |-> BaseExclude(exclude_exceptions),
     retryable_exceptions |-> <<>>]

ExponentialJitterRetryPolicy(max_retries, base_delay, max_delay, exclude_exceptions) ==
    [kind |-> "ExponentialJitter", max_retries |-> max_retries, base_delay |-> base_delay,
     max_delay |-> max_delay, exclude_exceptions |-> BaseExclude(exclude_exceptions),
     retryable_exceptions |-> <<>>]

ConditionalRetryPolicy(max_retries, base_delay, retryable_exceptions) ==
    [kind |-> "Conditional", max_retries |-> max_retries, base_delay |-> base_delay,
     max_delay |-> 0, exclude_exceptions |-> BaseExclude(<<>>),
     retryable_exceptions |-> IF retryable_exceptions # <<>> THEN retryable_exceptions
                              ELSE <<"Exception">>]

\* an object of a subclass of RetryPolicy written by the caller, which inherits
\* __init__, returns base_delay from get_delay and True from should_retry
AlwaysRetryPolicy(max_retries, base_delay) ==
    [kind |-> "Always", max_retries |-> max_retries, base_delay |-> base_delay,
     max_delay |-> 0, exclude_exceptions |-> BaseExclude(<<>>),
     retryable_exceptions |-> <<>>]

\* LinearRetryPolicy() with the constructor's defaults
DefaultPolicy == LinearRetryPolicy(DefaultMaxRetries, DefaultBaseDelay, <<>>)

Min(a, b) == IF a <= b THEN a ELSE b
Max(a, b) == IF a >= b THEN a ELSE b

RECURSIVE Pow2(_)
Pow2(n) == IF n <= 0 THEN 1 ELSE 2 * Pow2(n - 1)

\* an exclusion test that looks for the error object, not its type, in the list
InExcludeListByObject(p, kind) == FALSE

\* type(exception) in self.exclude_exceptions
InExcludeList(p, kind) ==
    \E i \in 1..Len(p.exclude_exceptions) :
        /\ p.exclude_exceptions[i].tag = "class"
        /\ p.exclude_exceptions[i].name = kind

\* kind is named in the exclude_exceptions argument the policy was constructed with
UserExcluded(p, kind) ==
    \E i \in 1..Len(p.exclude_exceptions) :
        /\ p.exclude_exceptions[i].tag = "list"
        /\ \E j \in 1..Len(p.exclude_exceptions[i].items) :
               p.exclude_exceptions[i].items[j] = kind

\* a should_retry that says yes once only
should_retry_once(p, attempt, kind) == attempt <= p.max_retries /\ ~probe.retry

\* RetryPolicy.should_retry, overridden by ConditionalRetryPolicy and by the caller's
\* subclass
should_retry(p, attempt, kind) ==
    IF p.kind = "Always" THEN TRUE
    ELSE IF p.kind = "Conditional"
    THEN IF attempt > p.max_retries THEN FALSE
         ELSE \E i \in 1..Len(p.retryable_exceptions) :
                  IsInstance(kind, p.retryable_exceptions[i])
    ELSE IF Len(p.exclude_exceptions) > 0 /\ InExcludeList(p, kind) THEN FALSE
         ELSE attempt <= p.max_retries

\* sys.float_info.max_exp: an int of 2 ** 1024 or more has no float
FloatMaxExponent == 1024

\* base_delay is a float, so base_delay * (2 ** (attempt - 1)) converts the power to
\* a float, which raises OverflowError when the power is too large
DelayOverflows(p, attempt) ==
    /\ p.kind \in {"Exponential", "ExponentialJitter"}
    /\ attempt - 1 >= FloatMaxExponent

\* ExponentialRetryPolicy.get_delay, where the product has a value
ExponentialDelay(p, attempt) == Min(p.base_delay * Pow2(attempt - 1), p.max_delay)

\* a get_delay that does not grow with the attempt
get_delay_flat(p, attempt) == {p.base_delay}

\* get_delay of each policy class: the set of values one call may return
\* (one value, except for the jitter policy, which draws at random)
get_delay(p, attempt) ==
    CASE p.kind = "Linear" -> {p.base_delay * attempt}
      [] p.kind = "Exponential" -> {ExponentialDelay(p, attempt)}
      [] p.kind = "ExponentialJitter" ->
            {Max(1, d) : d \in {x \in 0..(2 * ExponentialDelay(p, attempt)) :
                                   /\ 4 * x >= 3 * ExponentialDelay(p, attempt)
                                   /\ 4 * x <= 5 * ExponentialDelay(p, attempt)}}
      [] OTHER -> {p.base_delay}

----------------------------------------------------------------------------
(* Rows of the store *)

NoWfRow == [status |-> "NoRow", start_time |-> NoTime, end_time |-> NoTime,
            error_message |-> NoError]

NoWsRow == [workflow_instance_id |-> 0, status |-> "NoRow", start_time |-> NoTime,
            end_time |-> NoTime, attempt_number |-> 0, max_retries |-> 0,
            retry_delay |-> 0, error_message |-> NoError, result_data |-> "None"]

\* WorkflowInstance(...) as new_init builds it
NewWorkflowInstance(t) ==
    [status |-> "INSTANTIATED", start_time |-> t, end_time |-> NoTime,
     error_message |-> NoError]

\* the column default of attempt_number, applied when the row is inserted
DefaultAttemptNumber == 1

\* a workstep row inserted without a reference to its workflow
NewWorkStepInstanceOrphan(wf, p) ==
    [workflow_instance_id |-> 0, status |-> "INSTANTIATED", start_time |-> NoTime,
     end_time |-> NoTime, attempt_number |-> DefaultAttemptNumber,
     max_retries |-> p.max_retries, retry_delay |-> p.base_delay \div 10,
     error_message |-> NoError, result_data |-> "None"]

\* WorkStepInstance(...) as _execute_with_retry builds it; int(base_delay) in seconds
NewWorkStepInstance(wf, p) ==
    [workflow_instance_id |-> wf, status |-> "INSTANTIATED", start_time |-> NoTime,
     end_time |-> NoTime, attempt_number |-> DefaultAttemptNumber,
     max_retries |-> p.max_retries, retry_delay |-> p.base_delay \div 10,
     error_message |-> NoError, result_data |-> "None"]

\* a set_status that records a failure as a cancellation
SetStatusCancelling(row, new_status) ==
    [row EXCEPT !.status = IF new_status = "FAILED" THEN "CANCELLED" ELSE new_status]

\* set_status: self.status = new_status
SetStatus(row, new_status) == [row EXCEPT !.status = new_status]

\* a set_status that journals every call, also one that changes nothing
JournalsAlways(old_status, new_status) == TRUE

\* set_status: if old_status != new_status, a lifecycle row is added and committed
Journals(old_status, new_status) == old_status # new_status

\* WorkflowLifecycle(...) / WorkstepLifecycle(...)
Lifecycle(id, old_status, new_status) ==
    [instance_id |-> id, from_state |-> old_status, to_state |-> new_status]

\* the journal after set_status(new_status) on the loaded row of instance id
Journaled(journal, id, row, new_status) ==
    IF Journals(row.status, new_status)
    THEN Append(journal, Lifecycle(id, row.status, new_status))
    ELSE journal

\* an except clause that records the error and leaves end_time alone
FailedAttemptNoEndTime(row, kind, t) == [row EXCEPT !.error_message = kind]

\* the except clause of the retry loop: error_message = str(e); end_time = now()
FailedAttempt(row, kind, t) == [row EXCEPT !.error_message = kind, !.end_time = t]

\* an except clause of the workflow wrapper that records no error message
FailedWorkflowNoMessage(row, kind, t) == [row EXCEPT !.end_time = t]

\* the except clause of the workflow wrapper: end_time = now(); error_message = str(e)
FailedWorkflow(row, kind, t) == [row EXCEPT !.end_time = t, !.error_message = kind]

\* attempts numbered from zero
NumberedAttemptFromZero(row, attempt) == [row EXCEPT !.attempt_number = attempt - 1]

\* the start of an attempt: attempt_number = attempt
NumberedAttempt(row, attempt) == [row EXCEPT !.attempt_number = attempt]

----------------------------------------------------------------------------
(* Execution context and inputs *)

NoContext == [wf |-> 0, policy |-> NoPolicy]

\* WorkflowContext(retry_policy=self.retry_policy) with the row of workflow w
WorkflowContext(w, p) == [wf |-> w, policy |-> p]

\* the retry_policy arguments of the workflow_defn decorations: none, or exponential
WorkflowPolicyArgs == {NoPolicy, ExponentialRetryPolicy(MaxRetriesArg, 1, 2, <<>>)}

\* the retry_policy attributes of the receivers of workstep calls: none, linear without
\* retries, or linear with an exclusion list that names ConnectionError
InstancePolicyArgs ==
    {NoPolicy, LinearRetryPolicy(0, 1, <<>>),
     LinearRetryPolicy(MaxRetriesArg, 1, <<"ConnectionError">>)}

\* the retry_policy arguments of the workstep_defn decorations: none, or conditional
StepPolicyArgs == {NoPolicy, ConditionalRetryPolicy(MaxRetriesArg, 0, <<"ConnectionError">>)}

\* a resolution that looks at the receiver before the decoration
determine_retry_policy_instance_first(step_retry_policy, instance_retry_policy, workflow_context) ==
    IF instance_retry_policy # NoPolicy THEN instance_retry_policy
    ELSE IF step_retry_policy # NoPolicy THEN step_retry_policy
    ELSE IF workflow_context # NoContext /\ workflow_context.policy # NoPolicy
         THEN workflow_context.policy
    ELSE DefaultPolicy

\* _determine_retry_policy
determine_retry_policy(step_retry_policy, instance_retry_policy, workflow_context) ==
    IF step_retry_policy # NoPolicy THEN step_retry_policy
    ELSE IF instance_retry_policy # NoPolicy THEN instance_retry_policy
    ELSE IF workflow_context # NoContext /\ workflow_context.policy # NoPolicy
         THEN workflow_context.policy
    ELSE DefaultPolicy

\* retry_policy or LinearRetryPolicy() in new_init
WorkflowPolicy(retry_policy) == IF retry_policy # NoPolicy THEN retry_policy ELSE DefaultPolicy

\* a loop that does not count the initial attempt
LoopContinuesNoInitial(p, attempt) == attempt <= p.max_retries

\* while attempt <= retry_policy.max_retries + 1
LoopContinues(p, attempt) == attempt <= p.max_retries + 1

\* if retry_policy.should_retry(attempt, e) and attempt <= retry_policy.max_retries
WillRetry(p, attempt, kind) == should_retry(p, attempt, kind) /\ attempt <= p.max_retries

\* a retry that does not count the attempt
NextAttemptSame(attempt) == attempt

\* attempt += 1
NextAttempt(attempt) == attempt + 1

\* the invocations of the user function followed within one call
MaxInvocations == 5

\* a retry that goes on without sleeping
SleptNot(delays, delay) == delays

\* time.sleep(delay): the delays the call has taken, in order
Slept(delays, delay) == Append(delays, delay)

\* a workflow object whose execute is not running.  exc: the error in flight in the
\* wrapper; from: the workstep row whose call raised it, 0 when it came from elsewhere;
\* caught: the workstep rows whose error the body caught and suppressed; nested: an
\* execute called by the body has ended; result: what the last execute handed to its
\* caller, "returned" or the kind of the error it raised
IdleFrame ==
    [pc |-> "idle", row |-> NoWfRow, exc |-> NoError, from |-> 0, caught |-> <<>>,
     nested |-> FALSE, result |-> "None"]

\* the wrapper of an execute that has ended: it keeps what the execute did
EndedFrame(fr, result) ==
    [IdleFrame EXCEPT !.caught = fr.caught, !.nested = fr.nested, !.result = result]

\* call.outcomes: what each invocation of the user function did, "ok" or the kind raised;
\* call.result: the value the call returned to its caller; call.caller: the workflow
\* whose body made the call, 0 at top level; call.is_async: the user function is a
\* coroutine function
NoCall ==
    [pc |-> "none", id |-> 0, row |-> NoWsRow, policy |-> NoPolicy,
     step_policy |-> NoPolicy, instance_policy |-> NoPolicy, context |-> NoContext,
     attempt |-> 0, last_exception |-> NoError, outcomes |-> <<>>, delays |-> <<>>,
     result |-> "None", caller |-> 0, is_async |-> FALSE]

\* no policy object is under test and no status has been asked its next states.
\* table: the enumeration asked, status: its member, next: the list returned, error:
\* the error raised instead; sweeps: the calls of cleanup_old_instances so far,
\* cutoff: the cutoff_date of the last one, error: what it raised
\* asked: the method of the policy object called last; earlier: one of the calls made
\* on the object before that one, with its answer
NoAnswer ==
    [asked |-> "none", attempt |-> 0, kind |-> NoError, retry |-> FALSE, delay |-> 0,
     error |-> NoError]

NoProbe ==
    [policy |-> NoPolicy, attempt |-> 0, kind |-> NoError, retry |-> FALSE, delay |-> 0,
     table |-> "none", status |-> "None", next |-> {}, error |-> NoError,
     sweeps |-> 0, cutoff |-> NoTime, asked |-> "none", earlier |-> NoAnswer]

\* the last call made on the policy object, with its answer
Answer(pr) ==
    [asked |-> pr.asked, attempt |-> pr.attempt, kind |-> pr.kind, retry |-> pr.retry,
     delay |-> pr.delay, error |-> pr.error]

\* datetime.now(): between any two readings the code commits to the store, so the
\* clock has moved on since the last reading
Reading == now + 1

Workflows == 1..Len(wfTable)

Top == stack[Len(stack)]

\* the thread is in user code that may start something: top level or a workflow body
InUserCode ==
    /\ call.pc \in {"none", "returned", "raised"}
    /\ stack # <<>> => frame[Top].pc = "body"

\* an error raised by the call of workstep row id (0: no row) into the caller: the
\* body of the innermost running workflow, if any
RaisedInto(fr, kind, id) ==
    IF stack = <<>> THEN fr
    ELSE [fr EXCEPT ![Top] = [@ EXCEPT !.pc = "raised", !.exc = kind, !.from = id]]

Init ==
    /\ wfTable = <<>>
    /\ wsTable = <<>>
    /\ wfJournal = <<>>
    /\ wsJournal = <<>>
    /\ wfObj = <<>>
    /\ frame = <<>>
    /\ stack = <<>>
    /\ context = NoContext
    /\ call = NoCall
    /\ now = 0
    /\ ops = 0
    /\ probe = NoProbe
    /\ pending = <<>>

----------------------------------------------------------------------------
(* The workflow wrapper: workflow_defn.new_init and _wrap_workflow_execute *)

\* the frames when the execute of w ends raising an error of the given kind into the
\* body that called it, the body of parent (0: the top level)
EndsRaising(w, parent, kind) ==
    IF parent = 0
    THEN [frame EXCEPT ![w] = EndedFrame(frame[w], kind)]
    ELSE [frame EXCEPT ![w] = EndedFrame(frame[w], kind),
                       ![parent] = [@ EXCEPT !.pc = "raised", !.exc = kind,
                                             !.from = 0, !.nested = TRUE]]

\* a wrapper that does not commit its session
CommitWorkflowRowLost(w, row) == wfTable

\* session.commit() of the wrapper's session of workflow w: its loaded row is written
CommitWorkflowRow(w, row) == [wfTable EXCEPT ![w] = row]

\* new_init, at top level: the object gets its policy, the row is inserted in
\* INSTANTIATED and committed, the object keeps the row's key
NewWorkflow(retry_policy) ==
    /\ InUserCode
    /\ stack = <<>>
    /\ ops < MaxOps
    /\ ops' = ops + 1
    /\ now' = Reading
    /\ wfTable' = Append(wfTable, NewWorkflowInstance(Reading))
    /\ wfObj' = Append(wfObj, WorkflowPolicy(retry_policy))
    /\ frame' = Append(frame, IdleFrame)
    /\ UNCHANGED <<wsTable, wfJournal, wsJournal, stack, context, call>>
    /\ UNCHANGED <<probe, pending>>

\* execute, up to the commit inside set_status(RUNNING): the session is opened, the
\* row is loaded, the context is installed, the status is set and journaled
\* When the store no longer has the row, session.get returns None: set_status on it
\* raises AttributeError in the try and again in the except clause, and the finally
\* clause runs.
ExecuteBegin(w) ==
    /\ InUserCode
    /\ frame[w].pc = "idle"
    /\ ops < MaxOps
    /\ ops' = ops + 1
    /\ IF wfTable[w] = NoWfRow
       THEN /\ context' = NoContext
            /\ frame' = EndsRaising(w, IF stack = <<>> THEN 0 ELSE Top, "AttributeError")
            /\ UNCHANGED <<stack, wfJournal>>
       ELSE /\ context' = WorkflowContext(w, wfObj[w])
            /\ stack' = Append(stack, w)
            /\ wfJournal' = Journaled(wfJournal, w, wfTable[w], "RUNNING")
            /\ frame' = [frame EXCEPT ![w] = [IdleFrame EXCEPT
                                                 !.pc = "commit_running",
                                                 !.row = SetStatus(wfTable[w], "RUNNING")]]
    /\ UNCHANGED <<wfTable, wsTable, wsJournal, wfObj, call, now>>
    /\ UNCHANGED <<probe, pending>>

\* session.commit() after set_status(RUNNING); the body starts
ExecuteCommitRunning(w) ==
    /\ stack # <<>> /\ Top = w
    /\ frame[w].pc = "commit_running"
    /\ wfTable' = CommitWorkflowRow(w, frame[w].row)
    /\ frame' = [frame EXCEPT ![w].pc = "body"]
    /\ UNCHANGED <<wsTable, wfJournal, wsJournal, wfObj, stack, context, call, now, ops>>
    /\ UNCHANGED <<probe, pending>>

\* finally: session.close(); set_current_context(None)
Finally(w) ==
    /\ stack' = SubSeq(stack, 1, Len(stack) - 1)
    /\ context' = NoContext

\* the wrapper of the running execute of w finds its row gone: nothing is written
RowIsGone(w) ==
    /\ frame' = EndsRaising(w, IF Len(stack) = 1 THEN 0 ELSE stack[Len(stack) - 1],
                            "ObjectDeletedError")
    /\ Finally(w)
    /\ UNCHANGED wfJournal

\* the body returns: set_status(COMPLETED), up to the commit inside it
\* When the row was deleted from the store while the body ran, set_status reads the
\* status of the expired row object, which raises ObjectDeletedError, here and again
\* in the except clause; the finally clause runs.
BodyReturns(w) ==
    /\ stack # <<>> /\ Top = w
    /\ InUserCode
    /\ IF wfTable[w] = NoWfRow
       THEN RowIsGone(w)
       ELSE /\ wfJournal' = Journaled(wfJournal, w, frame[w].row, "COMPLETED")
            /\ frame' = [frame EXCEPT ![w] = [@ EXCEPT !.pc = "commit_completed",
                                                       !.row = SetStatus(@, "COMPLETED")]]
            /\ UNCHANGED <<stack, context>>
    /\ UNCHANGED <<wfTable, wsTable, wsJournal, wfObj, call, now, ops>>
    /\ UNCHANGED <<probe, pending>>

\* except Exception as e: set_status(FAILED), up to the commit inside it
Except(w, kind) ==
    /\ IF wfTable[w] = NoWfRow
       THEN RowIsGone(w)
       ELSE /\ wfJournal' = Journaled(wfJournal, w, frame[w].row, "FAILED")
            /\ frame' = [frame EXCEPT ![w] = [@ EXCEPT !.pc = "commit_failed",
                                                       !.row = SetStatus(@, "FAILED"),
                                                       !.exc = kind]]
            /\ UNCHANGED <<stack, context>>
    /\ UNCHANGED <<wfTable, wsTable, wsJournal, wfObj, call, now, ops>>

\* the body raises an error of its own
BodyRaises(w, kind) ==
    /\ stack # <<>> /\ Top = w
    /\ InUserCode
    /\ Except(w, kind)
    /\ UNCHANGED <<probe, pending>>

\* the body catches the error a workstep or a nested execute raised, and goes on
BodyCatches(w) ==
    /\ stack # <<>> /\ Top = w
    /\ frame[w].pc = "raised"
    /\ frame' = [frame EXCEPT ![w] = [@ EXCEPT
                                         !.pc = "body", !.exc = NoError, !.from = 0,
                                         !.caught = IF frame[w].from # 0
                                                    THEN Append(@, frame[w].from) ELSE @]]
    /\ UNCHANGED <<wfTable, wsTable, wfJournal, wsJournal, wfObj, stack, context, call,
                   now, ops>>
    /\ UNCHANGED <<probe, pending>>

\* the body lets that error through
BodyPropagates(w) ==
    /\ stack # <<>> /\ Top = w
    /\ frame[w].pc = "raised"
    /\ Except(w, frame[w].exc)
    /\ UNCHANGED <<probe, pending>>

\* end_time, session.commit(), return; then the finally clause
ExecuteCommitCompleted(w) ==
    /\ stack # <<>> /\ Top = w
    /\ frame[w].pc = "commit_completed"
    /\ now' = Reading
    /\ wfTable' = CommitWorkflowRow(w, [frame[w].row EXCEPT !.end_time = Reading])
    /\ frame' = IF Len(stack) = 1
                THEN [frame EXCEPT ![w] = EndedFrame(frame[w], "returned")]
                ELSE [frame EXCEPT ![w] = EndedFrame(frame[w], "returned"),
                                   ![stack[Len(stack) - 1]] = [@ EXCEPT !.nested = TRUE]]
    /\ Finally(w)
    /\ UNCHANGED <<wsTable, wfJournal, wsJournal, wfObj, call, ops>>
    /\ UNCHANGED <<probe, pending>>

\* end_time, error_message, session.commit(), raise; then the finally clause
ExecuteCommitFailed(w) ==
    /\ stack # <<>> /\ Top = w
    /\ frame[w].pc = "commit_failed"
    /\ now' = Reading
    /\ wfTable' = CommitWorkflowRow(w, FailedWorkflow(frame[w].row, frame[w].exc, Reading))
    /\ frame' = IF Len(stack) = 1
                THEN [frame EXCEPT ![w] = EndedFrame(frame[w], frame[w].exc)]
                ELSE [frame EXCEPT ![w] = EndedFrame(frame[w], frame[w].exc),
                                   ![stack[Len(stack) - 1]] =
                                       [@ EXCEPT !.pc = "raised", !.exc = frame[w].exc,
                                                 !.from = 0, !.nested = TRUE]]
    /\ Finally(w)
    /\ UNCHANGED <<wsTable, wfJournal, wsJournal, wfObj, call, ops>>
    /\ UNCHANGED <<probe, pending>>

----------------------------------------------------------------------------
(* The workstep wrapper: _execute_workstep_wrapper and _execute_with_retry *)

\* a commit that writes nothing
CommitWorkstepRowLost(id, row) == wsTable

\* session.commit() of the session the call runs in: the loaded workstep row is written
CommitWorkstepRow(id, row) == [wsTable EXCEPT ![id] = row]

\* the error raised by the statement after the loop, raise last_exception
FallThroughError(last_exception) ==
    IF last_exception = NoError THEN "TypeError" ELSE last_exception

\* the wrapper up to the commit of the inserted row.  Without a context the
\* standalone path hands None to _execute_with_retry, whose first statement reads
\* workflow_instance.id: the call raises AttributeError and no row is made.  When the
\* workflow row was deleted from the store, reading the id of the expired row object
\* raises ObjectDeletedError, and no row is made.
CallWorkstep(step_retry_policy, instance_retry_policy) ==
    /\ InUserCode
    /\ ops < MaxOps
    /\ ops' = ops + 1
    /\ LET p == determine_retry_policy(step_retry_policy, instance_retry_policy, context)
           started == [NoCall EXCEPT !.policy = p,
                                     !.step_policy = step_retry_policy,
                                     !.instance_policy = instance_retry_policy,
                                     !.context = context,
                                     !.caller = IF stack = <<>> THEN 0 ELSE Top]
           error == IF context = NoContext THEN "AttributeError" ELSE "ObjectDeletedError"
       IN IF context = NoContext \/ wfTable[context.wf] = NoWfRow
          THEN /\ call' = [started EXCEPT !.pc = "raised", !.last_exception = error]
               /\ frame' = RaisedInto(frame, error, 0)
               /\ UNCHANGED wsTable
          ELSE /\ wsTable' = Append(wsTable, NewWorkStepInstance(context.wf, p))
               /\ call' = [started EXCEPT !.pc = "loop", !.id = Len(wsTable) + 1,
                                          !.row = NewWorkStepInstance(context.wf, p),
                                          !.attempt = 1]
               /\ UNCHANGED frame
    /\ UNCHANGED <<wfTable, wfJournal, wsJournal, wfObj, stack, context, now>>
    /\ UNCHANGED <<probe, pending>>

\* the head of the loop and the start of an attempt, up to the next commit:
\* attempt_number, set_status(RUNNING), and when that journals nothing also
\* start_time and session.commit().  When the loop condition fails, the code after
\* the loop: set_status(FAILED).
BeginAttempt ==
    /\ call.pc = "loop"
    /\ IF LoopContinues(call.policy, call.attempt)
       THEN LET numbered == NumberedAttempt(call.row, call.attempt)
                started == [SetStatus(numbered, "RUNNING") EXCEPT !.start_time = Reading]
            IN IF Journals(numbered.status, "RUNNING")
               THEN /\ wsJournal' = Journaled(wsJournal, call.id, numbered, "RUNNING")
                    /\ call' = [call EXCEPT !.pc = "commit_running",
                                            !.row = SetStatus(numbered, "RUNNING")]
                    /\ UNCHANGED <<wsTable, now>>
               ELSE /\ now' = Reading
                    /\ wsTable' = CommitWorkstepRow(call.id, started)
                    /\ call' = [call EXCEPT !.pc = "func", !.row = started]
                    /\ UNCHANGED wsJournal
       ELSE /\ wsJournal' = Journaled(wsJournal, call.id, call.row, "FAILED")
            /\ call' = [call EXCEPT !.pc = "commit_failed",
                                    !.row = SetStatus(call.row, "FAILED"),
                                    !.last_exception = FallThroughError(call.last_exception)]
            /\ UNCHANGED <<wsTable, now>>
    /\ UNCHANGED <<wfTable, wfJournal, wfObj, frame, stack, context, ops>>
    /\ UNCHANGED <<probe, pending>>

\* start_time and session.commit() after set_status(RUNNING) has journaled
CommitRunning ==
    /\ call.pc = "commit_running"
    /\ now' = Reading
    /\ wsTable' = CommitWorkstepRow(call.id, [call.row EXCEPT !.start_time = Reading])
    /\ call' = [call EXCEPT !.pc = "func", !.row = [call.row EXCEPT !.start_time = Reading]]
    /\ UNCHANGED <<wfTable, wfJournal, wsJournal, wfObj, frame, stack, context, ops>>
    /\ UNCHANGED <<probe, pending>>

\* the user function returns: set_status(COMPLETED), up to the commit inside it
FuncReturns ==
    /\ call.pc = "func"
    /\ Len(call.outcomes) < MaxInvocations
    /\ wsJournal' = Journaled(wsJournal, call.id, call.row, "COMPLETED")
    /\ call' = [call EXCEPT !.pc = "commit_completed",
                            !.outcomes = Append(@, "ok"),
                            !.row = SetStatus(call.row, "COMPLETED")]
    /\ UNCHANGED <<wfTable, wsTable, wfJournal, wfObj, frame, stack, context, now, ops>>
    /\ UNCHANGED <<probe, pending>>

\* the user function raises: error_message and end_time are set; then either
\* set_status(RUNNING), session.commit(), the sleep and attempt += 1, or
\* set_status(FAILED) up to the commit inside it
FuncRaises(kind) ==
    /\ call.pc = "func"
    /\ Len(call.outcomes) < MaxInvocations
    /\ now' = Reading
    /\ LET failed == FailedAttempt(call.row, kind, Reading)
       IN IF WillRetry(call.policy, call.attempt, kind)
          THEN \E delay \in get_delay(call.policy, call.attempt) :
               /\ wsJournal' = Journaled(wsJournal, call.id, failed, "RUNNING")
               /\ wsTable' = CommitWorkstepRow(call.id, SetStatus(failed, "RUNNING"))
               /\ call' = [call EXCEPT !.pc = "loop",
                                       !.outcomes = Append(@, kind),
                                       !.last_exception = kind,
                                       !.row = SetStatus(failed, "RUNNING"),
                                       !.delays = Slept(@, delay),
                                       !.attempt = NextAttempt(@)]
          ELSE /\ wsJournal' = Journaled(wsJournal, call.id, failed, "FAILED")
               /\ call' = [call EXCEPT !.pc = "commit_failed",
                                       !.outcomes = Append(@, kind),
                                       !.last_exception = kind,
                                       !.row = SetStatus(failed, "FAILED")]
               /\ UNCHANGED wsTable
    /\ UNCHANGED <<wfTable, wfJournal, wfObj, frame, stack, context, ops>>
    /\ UNCHANGED <<probe, pending>>

\* end_time, result_data, session.commit(), return result
CommitCompleted ==
    /\ call.pc = "commit_completed"
    /\ now' = Reading
    /\ wsTable' = CommitWorkstepRow(call.id,
                      [call.row EXCEPT !.end_time = Reading, !.result_data = "ok"])
    /\ call' = [call EXCEPT !.pc = "returned",
                            !.result = "ok",
                            !.row = [call.row EXCEPT !.end_time = Reading,
                                                     !.result_data = "ok"]]
    /\ UNCHANGED <<wfTable, wfJournal, wsJournal, wfObj, frame, stack, context, ops>>
    /\ UNCHANGED <<probe, pending>>

\* session.commit() after set_status(FAILED), then raise
CommitFailed ==
    /\ call.pc = "commit_failed"
    /\ wsTable' = CommitWorkstepRow(call.id, call.row)
    /\ call' = [call EXCEPT !.pc = "raised"]
    /\ frame' = RaisedInto(frame, call.last_exception, call.id)
    /\ UNCHANGED <<wfTable, wfJournal, wsJournal, wfObj, stack, context, now, ops>>
    /\ UNCHANGED <<probe, pending>>

----------------------------------------------------------------------------

Next ==
    \/ \E p \in WorkflowPolicyArgs : NewWorkflow(p)
    \/ \E w \in Workflows : ExecuteBegin(w)
    \/ \E w \in Workflows : ExecuteCommitRunning(w)
    \/ \E w \in Workflows : BodyReturns(w)
    \/ \E w \in Workflows : BodyRaises(w, "RuntimeError")
    \/ \E w \in Workflows : BodyCatches(w)
    \/ \E w \in Workflows : BodyPropagates(w)
    \/ \E w \in Workflows : ExecuteCommitCompleted(w)
    \/ \E w \in Workflows : ExecuteCommitFailed(w)
    \/ \E sp \in StepPolicyArgs, ip \in InstancePolicyArgs : CallWorkstep(sp, ip)
    \/ BeginAttempt
    \/ CommitRunning
    \/ FuncReturns
    \/ \E kind \in UserErrors : FuncRaises(kind)
    \/ CommitCompleted
    \/ CommitFailed

Spec == Init /\ [][Next]_vars

----------------------------------------------------------------------------
(* Asynchronous workflows: execute is a coroutine function, wrapped by             *)
(* async_wrapper, whose statements are those of sync_wrapper with the body         *)
(* awaited.  Each top-level execute runs as a task of one event loop on one        *)
(* thread; stack is the call chain of the task that is running, and a task gives   *)
(* up the thread only where its body awaits.  _context is the thread's.            *)

\* two workflow objects have been constructed, of classes decorated with a policy
AsyncInit ==
    /\ \E p1 \in WorkflowPolicyArgs \ {NoPolicy}, p2 \in WorkflowPolicyArgs \ {NoPolicy} :
           wfObj = <<WorkflowPolicy(p1), WorkflowPolicy(p2)>>
    /\ wfTable = <<NewWorkflowInstance(1), NewWorkflowInstance(2)>>
    /\ frame = <<IdleFrame, IdleFrame>>
    /\ wsTable = <<>>
    /\ wfJournal = <<>>
    /\ wsJournal = <<>>
    /\ stack = <<>>
    /\ context = NoContext
    /\ call = NoCall
    /\ now = 2
    /\ ops = 0
    /\ probe = NoProbe
    /\ pending = <<>>

\* the event loop starts the task of an execute; each object is executed once
TaskBegins(w) ==
    /\ stack = <<>>
    /\ wfTable[w].status = "INSTANTIATED"
    /\ ExecuteBegin(w)

\* the body awaits something that is not ready: the task is suspended
BodyAwaits(w) ==
    /\ stack = <<w>>
    /\ InUserCode
    /\ frame' = [frame EXCEPT ![w].pc = "awaiting"]
    /\ stack' = <<>>
    /\ UNCHANGED <<wfTable, wsTable, wfJournal, wsJournal, wfObj, context, call, now, ops,
                   probe, pending>>

\* the event loop resumes a suspended task
TaskResumes(w) ==
    /\ stack = <<>>
    /\ frame[w].pc = "awaiting"
    /\ frame' = [frame EXCEPT ![w].pc = "body"]
    /\ stack' = <<w>>
    /\ UNCHANGED <<wfTable, wsTable, wfJournal, wsJournal, wfObj, context, call, now, ops,
                   probe, pending>>

\* a body awaits a workstep whose user function is a coroutine function:
\* _execute_workstep_wrapper hands the coroutine to asyncio.run, which raises
\* RuntimeError because the event loop is running; no row is made
CallAsyncWorkstep(step_retry_policy, instance_retry_policy) ==
    /\ stack # <<>>
    /\ InUserCode
    /\ ops < MaxOps
    /\ ops' = ops + 1
    /\ call' = [NoCall EXCEPT
                   !.pc = "raised",
                   !.policy = determine_retry_policy(step_retry_policy,
                                                     instance_retry_policy, context),
                   !.step_policy = step_retry_policy,
                   !.instance_policy = instance_retry_policy,
                   !.context = context,
                   !.caller = Top,
                   !.is_async = TRUE,
                   !.last_exception = "RuntimeError"]
    /\ frame' = RaisedInto(frame, "RuntimeError", 0)
    /\ UNCHANGED <<wfTable, wsTable, wfJournal, wsJournal, wfObj, stack, context, now,
                   probe, pending>>

\* task.cancel() on a suspended task: CancelledError is thrown into the body at its
\* await.  It is a BaseException and not an Exception, so the except clause of the
\* wrapper does not run; the finally clause does, and the error leaves the wrapper.
TaskCancelled(w) ==
    /\ stack = <<>>
    /\ frame[w].pc = "awaiting"
    /\ frame' = [frame EXCEPT ![w] = EndedFrame(frame[w], "CancelledError")]
    /\ context' = NoContext
    /\ UNCHANGED <<wfTable, wsTable, wfJournal, wsJournal, wfObj, stack, call, now, ops,
                   probe, pending>>

AsyncNext ==
    \/ \E w \in Workflows : TaskBegins(w)
    \/ \E w \in Workflows : TaskCancelled(w)
    \/ \E w \in Workflows : ExecuteCommitRunning(w)
    \/ \E w \in Workflows : BodyAwaits(w)
    \/ \E w \in Workflows : TaskResumes(w)
    \/ \E w \in Workflows : BodyReturns(w)
    \/ \E w \in Workflows : BodyRaises(w, "RuntimeError")
    \/ \E w \in Workflows : BodyCatches(w)
    \/ \E w \in Workflows : BodyPropagates(w)
    \/ \E w \in Workflows : ExecuteCommitCompleted(w)
    \/ \E w \in Workflows : ExecuteCommitFailed(w)
    \/ CallWorkstep(NoPolicy, NoPolicy)
    \/ CallAsyncWorkstep(NoPolicy, NoPolicy)
    \/ BeginAttempt
    \/ CommitRunning
    \/ FuncReturns
    \/ \E kind \in UserErrors : FuncRaises(kind)
    \/ CommitCompleted
    \/ CommitFailed

AsyncSpec == AsyncInit /\ [][AsyncNext]_vars

----------------------------------------------------------------------------
(* The retention sweep, utils.cleanup_old_instances, called at top level or by a   *)
(* body while workflows are constructed and executed.  The lifecycle tables hold   *)
(* foreign keys to the instance tables and no relationship cascades to them: a     *)
(* store that enforces the keys rejects the deletion of a referenced row, one that *)
(* does not enforce them deletes it and keeps the lifecycle rows.                  *)

\* the number of sweeps in a behaviour
MaxSweeps == 1

\* the query: the workflow rows whose start_time is before the cutoff
OldExecutions(cutoff_date) ==
    {w \in Workflows : wfTable[w] # NoWfRow /\ wfTable[w].start_time < cutoff_date}

\* a relationship that cascades nothing
CascadedStepsNone(old_executions) == {}

\* the rows the relationship work_steps cascades the deletion to
CascadedSteps(old_executions) ==
    {i \in DOMAIN wsTable : wsTable[i].workflow_instance_id \in old_executions}

\* a lifecycle row references one of the rows to delete
StillReferenced(old_executions) ==
    \/ \E k \in DOMAIN wfJournal : wfJournal[k].instance_id \in old_executions
    \/ \E k \in DOMAIN wsJournal : wsJournal[k].instance_id \in CascadedSteps(old_executions)

\* the days_old arguments: those that put the cutoff at the start of a workflow row,
\* and 0
DaysOldArgs ==
    {0} \cup {Reading - wfTable[w].start_time : w \in {v \in Workflows : wfTable[v] # NoWfRow}}

\* cleanup_old_instances(days_old) on a store that enforces foreign keys or not
cleanup_old_instances(days_old, enforced) ==
    /\ InUserCode
    /\ probe.sweeps < MaxSweeps
    /\ now' = Reading
    /\ LET cutoff_date == Reading - days_old
           old_executions == OldExecutions(cutoff_date)
           swept == [probe EXCEPT !.sweeps = @ + 1, !.cutoff = cutoff_date]
       IN IF enforced /\ StillReferenced(old_executions)
          THEN /\ probe' = [swept EXCEPT !.error = "IntegrityError"]
               /\ frame' = RaisedInto(frame, "IntegrityError", 0)
               /\ UNCHANGED <<wfTable, wsTable>>
          ELSE /\ probe' = [swept EXCEPT !.error = NoError]
               /\ wfTable' = [w \in DOMAIN wfTable |->
                                 IF w \in old_executions THEN NoWfRow ELSE wfTable[w]]
               /\ wsTable' = [i \in DOMAIN wsTable |->
                                 IF i \in CascadedSteps(old_executions)
                                 THEN NoWsRow ELSE wsTable[i]]
               /\ UNCHANGED frame
    /\ UNCHANGED <<wfJournal, wsJournal, wfObj, stack, context, call, ops, pending>>

SweepNext ==
    \/ \E p \in WorkflowPolicyArgs \ {NoPolicy} : NewWorkflow(p)
    \/ \E w \in Workflows : ExecuteBegin(w)
    \/ \E w \in Workflows : ExecuteCommitRunning(w)
    \/ \E w \in Workflows : BodyReturns(w)
    \/ \E w \in Workflows : BodyRaises(w, "RuntimeError")
    \/ \E w \in Workflows : BodyCatches(w)
    \/ \E w \in Workflows : BodyPropagates(w)
    \/ \E w \in Workflows : ExecuteCommitCompleted(w)
    \/ \E w \in Workflows : ExecuteCommitFailed(w)
    \/ CallWorkstep(NoPolicy, NoPolicy)
    \/ BeginAttempt
    \/ CommitRunning
    \/ FuncReturns
    \/ \E kind \in UserErrors : FuncRaises(kind)
    \/ CommitCompleted
    \/ CommitFailed
    \/ \E days_old \in DaysOldArgs, enforced \in BOOLEAN :
           cleanup_old_instances(days_old, enforced)

SweepSpec == Init /\ [][SweepNext]_vars

----------------------------------------------------------------------------
(* The policy classes and the status enumerations on their own: a policy object is *)
(* constructed from arguments drawn from small sets and asked should_retry and     *)
(* get_delay; a status is asked its next_states.                                   *)

\* the largest attempt number a policy object is asked about
MaxProbeAttempt == 3

\* the kinds of error the policy objects are asked about
ProbeKinds == {"ValueError", "UnicodeError", "ConnectionError", "RuntimeError"}

\* the exclude_exceptions arguments
ExcludeArgs == {<<>>, <<"ConnectionError">>}

\* the retryable_exceptions arguments; <<>> is the default, None
RetryableArgs == {<<>>, <<"ConnectionError">>, <<"ValueError">>}

\* the policy objects the constructors make from the arguments
PolicyObjects ==
    UNION {
        {LinearRetryPolicy(m, b, x),
         ExponentialRetryPolicy(m, b, 2 * b, x),
         ExponentialJitterRetryPolicy(m, b, 2 * b, x)} :
            m \in 0..MaxRetriesArg, b \in {1, DefaultBaseDelay}, x \in ExcludeArgs }
    \cup {ConditionalRetryPolicy(m, b, r) :
            m \in 0..MaxRetriesArg, b \in {1, DefaultBaseDelay}, r \in RetryableArgs}

\* one of the policy constructors
ConstructPolicy(p) ==
    /\ probe' = [NoProbe EXCEPT !.policy = p]
    /\ UNCHANGED <<wfTable, wsTable, wfJournal, wsJournal, wfObj, frame, stack, context,
                   call, now, ops, pending>>

\* retry_policy.should_retry(attempt, e) with e of the given kind; probe keeps the
\* last question asked and its answer, and one of the earlier ones
AskShouldRetry(attempt, kind) ==
    /\ probe.policy # NoPolicy
    /\ \E e \in {probe.earlier, Answer(probe)} :
           probe' = [NoProbe EXCEPT !.policy = probe.policy, !.attempt = attempt,
                                    !.kind = kind, !.asked = "should_retry",
                                    !.retry = should_retry(probe.policy, attempt, kind),
                                    !.earlier = e]
    /\ UNCHANGED <<wfTable, wsTable, wfJournal, wsJournal, wfObj, frame, stack, context,
                   call, now, ops, pending>>

\* retry_policy.get_delay(attempt)
AskGetDelay(attempt) ==
    /\ probe.policy # NoPolicy
    /\ \E e \in {probe.earlier, Answer(probe)} :
           IF DelayOverflows(probe.policy, attempt)
           THEN probe' = [NoProbe EXCEPT !.policy = probe.policy, !.attempt = attempt,
                                         !.asked = "get_delay", !.earlier = e,
                                         !.error = "OverflowError"]
           ELSE \E d \in get_delay(probe.policy, attempt) :
                    probe' = [NoProbe EXCEPT !.policy = probe.policy, !.attempt = attempt,
                                             !.asked = "get_delay", !.earlier = e,
                                             !.delay = d]
    /\ UNCHANGED <<wfTable, wsTable, wfJournal, wsJournal, wfObj, frame, stack, context,
                   call, now, ops, pending>>

\* status.next_states() on a member of WorkflowStatus: valid_transitions[self], which
\* raises KeyError when the member is not a key
AskWorkflowNextStates(s) ==
    /\ probe' = [NoProbe EXCEPT
                    !.table = "workflow", !.status = s,
                    !.next = WorkflowNextStates(s),
                    !.error = IF s \in WorkflowTransitionKeys THEN NoError ELSE "KeyError"]
    /\ UNCHANGED <<wfTable, wsTable, wfJournal, wsJournal, wfObj, frame, stack, context,
                   call, now, ops, pending>>

\* status.next_states() on a member of WorkStepStatus
AskWorkStepNextStates(s) ==
    /\ probe' = [NoProbe EXCEPT
                    !.table = "workstep", !.status = s,
                    !.next = WorkStepNextStates(s),
                    !.error = IF s \in WorkStepTransitionKeys THEN NoError ELSE "KeyError"]
    /\ UNCHANGED <<wfTable, wsTable, wfJournal, wsJournal, wfObj, frame, stack, context,
                   call, now, ops, pending>>

PolicyNext ==
    \/ \E p \in PolicyObjects : ConstructPolicy(p)
    \/ \E s \in WorkflowStatus : AskWorkflowNextStates(s)
    \/ \E s \in WorkStepStatus : AskWorkStepNextStates(s)
    \/ \E attempt \in 1..MaxProbeAttempt, kind \in ProbeKinds : AskShouldRetry(attempt, kind)
    \/ \E attempt \in 1..MaxProbeAttempt \cup {FloatMaxExponent + 1} : AskGetDelay(attempt)

PolicySpec == Init /\ [][PolicyNext]_vars

----------------------------------------------------------------------------
(* Workflows on threads.  Each thread runs sync_wrapper of one workflow object     *)
(* with a session of its own for the row; set_status adds the lifecycle row to the *)
(* session object of the models module, which all threads use.  A thread gives up  *)
(* the processor between any two calls on a session.  _context is local to each    *)
(* thread and nothing here reads it.                                               *)

\* set_status(new_status) of the loaded row of w up to session.add(lc): the status of
\* the loaded row is set and the lifecycle row waits in the module's session
ThreadSetsStatus(w, row, new_status, pc) ==
    /\ pending' = Journaled(pending, w, row, new_status)
    /\ frame' = [frame EXCEPT ![w] = [@ EXCEPT !.pc = pc,
                                               !.row = SetStatus(row, new_status)]]

\* a thread calls execute: Session(), session.get, set_status(RUNNING) up to its add
ThreadBegins(w) ==
    /\ frame[w].pc = "idle"
    /\ ops < MaxOps
    /\ ops' = ops + 1
    /\ ThreadSetsStatus(w, wfTable[w], "RUNNING", "set_running")
    /\ UNCHANGED <<wfTable, wsTable, wfJournal, wsJournal, wfObj, stack, context, call,
                   now, probe>>

\* session.commit() at the end of set_status, on the module's session: every
\* lifecycle row waiting in it is written, whichever thread added it
ThreadCommitsJournal(w) ==
    /\ frame[w].pc \in {"set_running", "set_completed", "set_failed"}
    /\ wfJournal' = wfJournal \o pending
    /\ pending' = <<>>
    /\ frame' = [frame EXCEPT ![w].pc = CASE frame[w].pc = "set_running" -> "commit_running"
                                          [] frame[w].pc = "set_completed" -> "commit_completed"
                                          [] OTHER -> "commit_failed"]
    /\ UNCHANGED <<wfTable, wsTable, wsJournal, wfObj, stack, context, call, now, ops,
                   probe>>

\* session.commit() of the thread's own session after set_status(RUNNING)
ThreadCommitsRunning(w) ==
    /\ frame[w].pc = "commit_running"
    /\ wfTable' = CommitWorkflowRow(w, frame[w].row)
    /\ frame' = [frame EXCEPT ![w].pc = "body"]
    /\ UNCHANGED <<wsTable, wfJournal, wsJournal, wfObj, stack, context, call, now, ops,
                   probe, pending>>

\* the body returns: set_status(COMPLETED) up to its add
ThreadBodyReturns(w) ==
    /\ frame[w].pc = "body"
    /\ ThreadSetsStatus(w, frame[w].row, "COMPLETED", "set_completed")
    /\ UNCHANGED <<wfTable, wsTable, wfJournal, wsJournal, wfObj, stack, context, call,
                   now, ops, probe>>

\* the body raises: except Exception as e, set_status(FAILED) up to its add
ThreadBodyRaises(w, kind) ==
    /\ frame[w].pc = "body"
    /\ pending' = Journaled(pending, w, frame[w].row, "FAILED")
    /\ frame' = [frame EXCEPT ![w] = [@ EXCEPT !.pc = "set_failed",
                                               !.row = SetStatus(@, "FAILED"),
                                               !.exc = kind]]
    /\ UNCHANGED <<wfTable, wsTable, wfJournal, wsJournal, wfObj, stack, context, call,
                   now, ops, probe>>

\* end_time, session.commit() of the thread's own session, return; finally
ThreadCommitsCompleted(w) ==
    /\ frame[w].pc = "commit_completed"
    /\ now' = Reading
    /\ wfTable' = CommitWorkflowRow(w, [frame[w].row EXCEPT !.end_time = Reading])
    /\ frame' = [frame EXCEPT ![w] = EndedFrame(frame[w], "returned")]
    /\ UNCHANGED <<wsTable, wfJournal, wsJournal, wfObj, stack, context, call, ops,
                   probe, pending>>

\* end_time, error_message, session.commit() of the thread's own session, raise; finally
ThreadCommitsFailed(w) ==
    /\ frame[w].pc = "commit_failed"
    /\ now' = Reading
    /\ wfTable' = CommitWorkflowRow(w, FailedWorkflow(frame[w].row, frame[w].exc, Reading))
    /\ frame' = [frame EXCEPT ![w] = EndedFrame(frame[w], frame[w].exc)]
    /\ UNCHANGED <<wsTable, wfJournal, wsJournal, wfObj, stack, context, call, ops,
                   probe, pending>>

ThreadNext ==
    \/ \E w \in Workflows : ThreadBegins(w)
    \/ \E w \in Workflows : ThreadCommitsJournal(w)
    \/ \E w \in Workflows : ThreadCommitsRunning(w)
    \/ \E w \in Workflows : ThreadBodyReturns(w)
    \/ \E w \in Workflows, kind \in UserErrors : ThreadBodyRaises(w, kind)
    \/ \E w \in Workflows : ThreadCommitsCompleted(w)
    \/ \E w \in Workflows : ThreadCommitsFailed(w)

ThreadSpec == AsyncInit /\ [][ThreadNext]_vars

----------------------------------------------------------------------------
(* The attempt loop under policies of the caller's own: workflows and worksteps    *)
(* whose policy always asks for a retry, beside the jitter policy.  The thread     *)
(* runs on, every invocation of a user function ends and every sleep ends: a       *)
(* workstep call that can take a step takes one.                                   *)

LoopWorkflowPolicyArgs == {AlwaysRetryPolicy(MaxRetriesArg, 1)}

LoopStepPolicyArgs ==
    {NoPolicy, AlwaysRetryPolicy(0, 1),
     ExponentialJitterRetryPolicy(MaxRetriesArg, 4, 4, <<>>)}

\* one step of the workstep call in progress
WorkstepStep ==
    \/ BeginAttempt
    \/ CommitRunning
    \/ FuncReturns
    \/ \E kind \in UserErrors : FuncRaises(kind)
    \/ CommitCompleted
    \/ CommitFailed

LoopNext ==
    \/ \E p \in LoopWorkflowPolicyArgs : NewWorkflow(p)
    \/ \E w \in Workflows : ExecuteBegin(w)
    \/ \E w \in Workflows : ExecuteCommitRunning(w)
    \/ \E w \in Workflows : BodyReturns(w)
    \/ \E w \in Workflows : BodyRaises(w, "RuntimeError")
    \/ \E w \in Workflows : BodyCatches(w)
    \/ \E w \in Workflows : BodyPropagates(w)
    \/ \E w \in Workflows : ExecuteCommitCompleted(w)
    \/ \E w \in Workflows : ExecuteCommitFailed(w)
    \/ \E sp \in LoopStepPolicyArgs : CallWorkstep(sp, NoPolicy)
    \/ BeginAttempt
    \/ CommitRunning
    \/ FuncReturns
    \/ \E kind \in UserErrors : FuncRaises(kind)
    \/ CommitCompleted
    \/ CommitFailed

LoopSpec == Init /\ [][LoopNext]_vars

FairLoopSpec == LoopSpec /\ WF_vars(WorkstepStep)

----------------------------------------------------------------------------
(* Executes nested in bodies, on two workflow objects constructed beforehand *)

NestedSpec == AsyncInit /\ [][Next]_vars

----------------------------------------------------------------------------
(* Properties *)

\* the lifecycle rows of instance id, in insertion order
JournalOf(journal, id) == SelectSeq(journal, LAMBDA r : r.instance_id = id)

\* the number of lifecycle rows of instance id that lead to status s
EdgesTo(journal, id, s) ==
    Len(SelectSeq(journal, LAMBDA r : r.instance_id = id /\ r.to_state = s))

\* the status the journal of instance id says the instance has
LastStatus(journal, id) ==
    IF JournalOf(journal, id) = <<>> THEN "INSTANTIATED"
    ELSE JournalOf(journal, id)[Len(JournalOf(journal, id))].to_state

WorkSteps == 1..Len(wsTable)

\* C1: every journaled lifecycle row of a workflow or workstep instance is an edge
\* of the transition table of its enumeration, also after a second execute of a
\* workflow whose row is COMPLETED or FAILED.
C1_LegalEdges ==
    /\ \A i \in 1..Len(wfJournal) :
           wfJournal[i].to_state \in WorkflowNextStates(wfJournal[i].from_state)
    /\ \A i \in 1..Len(wsJournal) :
           wsJournal[i].to_state \in WorkStepNextStates(wsJournal[i].from_state)

\* C2: a status change and its lifecycle row become durable together: in every
\* committed store state the status of each row is the status its journal leads to
\* (no journal row old->new while the committed status is old, no committed status
\* change without its journal row).
C2_AtomicJournal ==
    /\ \A w \in Workflows : wfTable[w].status = LastStatus(wfJournal, w)
    /\ \A i \in WorkSteps : wsTable[i].status = LastStatus(wsJournal, i)

\* the status set_status reads on the workflow object: that of the loaded row
LoadedStatus(w) == IF frame[w].pc = "idle" THEN wfTable[w].status ELSE frame[w].row.status

C3_Step ==
    /\ \A w \in Workflows :
           IF LoadedStatus(w)' # LoadedStatus(w)
           THEN wfJournal' = Append(wfJournal, Lifecycle(w, LoadedStatus(w), LoadedStatus(w)'))
           ELSE JournalOf(wfJournal', w) = JournalOf(wfJournal, w)
    /\ (call.id # 0 /\ call'.id = call.id) =>
           IF call'.row.status # call.row.status
           THEN wsJournal' = Append(wsJournal,
                                    Lifecycle(call.id, call.row.status, call'.row.status))
           ELSE wsJournal' = wsJournal

C3_NoSelfEdge ==
    /\ \A i \in 1..Len(wfJournal) : wfJournal[i].from_state # wfJournal[i].to_state
    /\ \A i \in 1..Len(wsJournal) : wsJournal[i].from_state # wsJournal[i].to_state
    /\ (call.id # 0 /\ call.attempt >= 2) => EdgesTo(wsJournal, call.id, "RUNNING") = 1

\* C3: every set_status(new) appends exactly one lifecycle row, old->new, when the
\* status it finds differs from new, and none when it is equal; the journal holds
\* no self-transition, and the retry path's second RUNNING journals nothing.
C3_JournalIffChange == [][C3_Step]_vars /\ []C3_NoSelfEdge

\* a second attempt is running and the journal of the row holds only INSTANTIATED->RUNNING
C3_Witness ==
    /\ call.id # 0 /\ call.pc = "func" /\ call.attempt >= 2
    /\ JournalOf(wsJournal, call.id) = <<Lifecycle(call.id, "INSTANTIATED", "RUNNING")>>

\* C4: every workstep row, committed or loaded, has 1 <= attempt_number <= max_retries + 1.
C4_AttemptRange ==
    /\ \A i \in WorkSteps :
           /\ wsTable[i].attempt_number >= 1
           /\ wsTable[i].attempt_number <= wsTable[i].max_retries + 1
    /\ call.id # 0 =>
           /\ call.row.attempt_number >= 1
           /\ call.row.attempt_number <= call.row.max_retries + 1

\* a row that failed on its last allowed attempt, after at least one retry
C4_Witness ==
    \E i \in WorkSteps :
        /\ wsTable[i].status = "FAILED"
        /\ wsTable[i].attempt_number >= 2
        /\ wsTable[i].attempt_number = wsTable[i].max_retries + 1

\* C5: in every committed state end_time is set if and only if the status is
\* COMPLETED, CANCELLED or (after the last attempt) FAILED; a RUNNING row has none.
C5_EndTimeIffEnded ==
    /\ \A w \in Workflows :
           (wfTable[w].end_time # NoTime) <=>
               (wfTable[w].status \in {"COMPLETED", "CANCELLED", "FAILED"})
    /\ \A i \in WorkSteps :
           (wsTable[i].end_time # NoTime) <=>
               (wsTable[i].status \in {"COMPLETED", "CANCELLED", "FAILED"})

\* C6: in every committed state a row with start_time and end_time both set has
\* end_time >= start_time, also during a second or later attempt.
C6_EndNotBeforeStart ==
    /\ \A w \in Workflows :
           (wfTable[w].start_time # NoTime /\ wfTable[w].end_time # NoTime) =>
               wfTable[w].end_time >= wfTable[w].start_time
    /\ \A i \in WorkSteps :
           (wsTable[i].start_time # NoTime /\ wsTable[i].end_time # NoTime) =>
               wsTable[i].end_time >= wsTable[i].start_time

\* C7: in every committed state a workflow or workstep row whose status is
\* COMPLETED or FAILED has end_time set.
C7_EndedHasEndTime ==
    /\ \A w \in Workflows :
           wfTable[w].status \in {"COMPLETED", "FAILED"} => wfTable[w].end_time # NoTime
    /\ \A i \in WorkSteps :
           wsTable[i].status \in {"COMPLETED", "FAILED"} => wsTable[i].end_time # NoTime

\* a workstep row committed FAILED under a workflow row committed FAILED
C7_Witness ==
    \E i \in WorkSteps :
        /\ wsTable[i].status = "FAILED"
        /\ wsTable[i].end_time # NoTime
        /\ wfTable[wsTable[i].workflow_instance_id].status = "FAILED"
        /\ wfTable[wsTable[i].workflow_instance_id].end_time # NoTime

\* C8: a workstep call that has returned has journaled exactly one entry to
\* COMPLETED, from RUNNING, and none to FAILED; a call that has raised has journaled
\* exactly one entry to FAILED, and it is the last entry of the row.
C8_CallJournal ==
    /\ call.pc = "returned" =>
           /\ EdgesTo(wsJournal, call.id, "COMPLETED") = 1
           /\ EdgesTo(wsJournal, call.id, "FAILED") = 0
           /\ Lifecycle(call.id, "RUNNING", "COMPLETED") \in
                  {wsJournal[i] : i \in 1..Len(wsJournal)}
    /\ call.pc = "raised" =>
           /\ EdgesTo(wsJournal, call.id, "FAILED") = 1
           /\ LastStatus(wsJournal, call.id) = "FAILED"

\* the policy the precedence rule names for the call's inputs
C9_Expected ==
    IF call.step_policy # NoPolicy THEN call.step_policy
    ELSE IF call.instance_policy # NoPolicy THEN call.instance_policy
    ELSE IF call.context # NoContext THEN call.context.policy
    ELSE LinearRetryPolicy(DefaultMaxRetries, DefaultBaseDelay, <<>>)

\* C9: a workstep call runs with the decoration's policy if given, else the
\* receiver's, else the context's, else a default LinearRetryPolicy; its row carries
\* that policy's max_retries.
C9_Precedence ==
    call.pc # "none" =>
        /\ call.policy = C9_Expected
        /\ call.id # 0 => wsTable[call.id].max_retries = C9_Expected.max_retries

\* decoration, receiver and context all hold a policy, of three kinds, and the
\* call runs with the decoration's
C9_Witness ==
    /\ call.id # 0
    /\ call.step_policy.kind = "Conditional"
    /\ call.instance_policy.kind = "Linear"
    /\ call.context.policy.kind = "Exponential"
    /\ call.policy.kind = "Conditional"

\* the user function raised ValueError on attempt 1 under a Linear or Exponential policy
C10_Case ==
    /\ call.id # 0
    /\ call.policy.kind \in {"Linear", "Exponential"}
    /\ Len(call.outcomes) >= 1
    /\ call.outcomes[1] = "ValueError"

\* C10: when the user function raises ValueError on attempt 1 under a Linear or
\* Exponential policy, it is invoked once, no delay is taken, and the call ends
\* with the row FAILED, attempt_number 1 and one journaled edge to FAILED.
C10_ValueErrorNoRetry ==
    C10_Case =>
        /\ call.outcomes = <<"ValueError">>
        /\ call.delays = <<>>
        /\ call.pc \in {"commit_failed", "raised"}
        /\ call.pc = "raised" =>
               /\ wsTable[call.id].status = "FAILED"
               /\ wsTable[call.id].attempt_number = 1
               /\ EdgesTo(wsJournal, call.id, "FAILED") = 1

\* such a call has ended, under a policy that allows retries
C10_Witness ==
    /\ C10_Case
    /\ call.pc = "raised"
    /\ call.policy.max_retries >= 1

\* the user function raised, on attempt 1, a kind named in the exclusion list of the
\* Linear or Exponential policy the call runs with
C11_Case ==
    /\ call.id # 0
    /\ call.policy.kind \in {"Linear", "Exponential"}
    /\ Len(call.outcomes) >= 1
    /\ call.outcomes[1] # "ValueError"
    /\ UserExcluded(call.policy, call.outcomes[1])

\* C11: when the user function raises a kind K (other than ValueError) that the
\* Linear or Exponential policy of the call was constructed to exclude, the call is
\* terminated at once: one invocation, no delay, and the row ends FAILED with the
\* attempt_number of that attempt.
C11_ExcludedNoRetry ==
    C11_Case =>
        /\ call.outcomes = <<call.outcomes[1]>>
        /\ call.delays = <<>>
        /\ call.pc \in {"commit_failed", "raised"}
        /\ call.pc = "raised" =>
               /\ wsTable[call.id].status = "FAILED"
               /\ wsTable[call.id].attempt_number = 1

\* C12: every policy object of the four built-in classes, whatever its constructor
\* arguments, answers should_retry(attempt, e) = false for every attempt when e is a
\* ValueError.
C12_ValueErrorExcluded ==
    (probe.policy # NoPolicy /\ probe.kind = "ValueError") => ~probe.retry

\* a kind the policy is meant to retry: not ValueError, not named in the exclusion
\* list, and for a Conditional policy an instance of a retryable kind
Transient(p, kind) ==
    /\ kind \notin {"ok", "ValueError"}
    /\ ~UserExcluded(p, kind)
    /\ p.kind = "Conditional" =>
           \E i \in 1..Len(p.retryable_exceptions) : IsInstance(kind, p.retryable_exceptions[i])

\* the delays the call has taken are get_delay(1), get_delay(2), ... in that order
DelaysInOrder == \A i \in 1..Len(call.delays) : call.delays[i] \in get_delay(call.policy, i)

\* every invocation of the user function so far raised a transient error
C13_Case ==
    /\ call.id # 0
    /\ Len(call.outcomes) >= 1
    /\ \A i \in 1..Len(call.outcomes) : Transient(call.policy, call.outcomes[i])

\* C13: when the user function raises a transient error on every attempt under a
\* policy with max_retries = N, the call fails only after N+1 invocations, with the
\* N delays get_delay(1..N) taken in order and none after the last attempt, and the
\* row ends FAILED with attempt_number = N+1.
C13_Exhaustion ==
    C13_Case =>
        /\ DelaysInOrder
        /\ IF call.pc \in {"commit_failed", "raised"}
           THEN /\ Len(call.outcomes) = call.policy.max_retries + 1
                /\ Len(call.delays) = call.policy.max_retries
           ELSE /\ Len(call.outcomes) <= call.policy.max_retries
                /\ Len(call.delays) = Len(call.outcomes)
        /\ call.pc = "raised" =>
               /\ wsTable[call.id].status = "FAILED"
               /\ wsTable[call.id].attempt_number = call.policy.max_retries + 1

\* a call that used up its retries, at least one, and has raised
C13_Witness ==
    /\ C13_Case
    /\ call.pc = "raised"
    /\ call.policy.max_retries >= 1
    /\ Len(call.delays) = call.policy.max_retries

\* the user function raised transient errors on its first attempts and then returned
C14_Case ==
    /\ call.id # 0
    /\ Len(call.outcomes) >= 1
    /\ call.outcomes[Len(call.outcomes)] = "ok"
    /\ \A i \in 1..(Len(call.outcomes) - 1) : Transient(call.policy, call.outcomes[i])

\* C14: when the user function raises a transient error on its first k attempts,
\* k <= max_retries, and returns on attempt k+1, the call returns that value, the row
\* ends COMPLETED with attempt_number = k+1, and exactly the k delays get_delay(1..k)
\* were taken; until then a transient error on an attempt k <= max_retries does not
\* end the call.
C14_RetryThenSuccess ==
    /\ C14_Case =>
           /\ Len(call.outcomes) <= call.policy.max_retries + 1
           /\ Len(call.delays) = Len(call.outcomes) - 1
           /\ DelaysInOrder
           /\ call.pc \in {"commit_completed", "returned"}
           /\ call.pc = "returned" =>
                  /\ call.result = "ok"
                  /\ wsTable[call.id].status = "COMPLETED"
                  /\ wsTable[call.id].result_data = "ok"
                  /\ wsTable[call.id].attempt_number = Len(call.outcomes)
    /\ (C13_Case /\ Len(call.outcomes) <= call.policy.max_retries) =>
           call.pc \in {"loop", "commit_running", "func"}

\* a call that returned on its second or later attempt
C14_Witness ==
    /\ C14_Case
    /\ call.pc = "returned"
    /\ Len(call.outcomes) >= 2

\* the workstep rows recorded under workflow w
RowsOf(w) == {i \in WorkSteps : wsTable[i].workflow_instance_id = w}

\* the body of w let through the error of its workstep call, the last call made:
\* the wrapper is about to commit FAILED, or has ended raising that error
C15_Case(w) ==
    /\ call.pc = "raised"
    /\ call.id # 0
    /\ wsTable[call.id].workflow_instance_id = w
    /\ \/ frame[w].pc = "commit_failed" /\ frame[w].from = call.id
       \/ frame[w].pc = "idle" /\ frame[w].result = call.last_exception

C15_State ==
    \A w \in Workflows :
        C15_Case(w) =>
            LET J == JournalOf(wfJournal, w)
            IN /\ Len(J) >= 2
               /\ J[Len(J) - 1].to_state = "RUNNING"
               /\ J[Len(J)] = Lifecycle(w, "RUNNING", "FAILED")
               /\ Len(J) = 2 => J[1] = Lifecycle(w, "INSTANTIATED", "RUNNING")
               /\ wsTable[call.id].status = "FAILED"
               /\ \A i \in RowsOf(w) :
                      /\ i <= call.id
                      /\ i < call.id => wsTable[i].status \in {"COMPLETED", "FAILED"}
                      /\ (i < call.id /\ Len(J) = 2 /\ frame[w].caught = <<>>) =>
                             wsTable[i].status = "COMPLETED"
               /\ frame[w].pc = "idle" =>
                      /\ wfTable[w].status = "FAILED"
                      /\ wfTable[w].error_message = call.last_exception
                      /\ wfTable[w].end_time # NoTime
                      /\ frame[w].result = call.last_exception

\* while the wrapper of w handles the error, no workstep row is created under w
C15_Step ==
    \A w \in Workflows :
        (frame[w].pc = "commit_failed" /\ w <= Len(wfTable)) =>
            {i \in 1..Len(wsTable') : wsTable'[i].workflow_instance_id = w} = RowsOf(w)

\* C15: when a body lets through the permanent failure of one of its worksteps, the
\* workflow's journal ends ->RUNNING, RUNNING->FAILED (exactly INSTANTIATED->RUNNING->
\* FAILED on a first execute), the row is committed FAILED with error_message and
\* end_time, the error is raised to the caller of execute, the failing workstep's row
\* is FAILED, the earlier rows are COMPLETED (none caught, first execute), and no row
\* is created under the workflow after the failing one.
C15_FailurePropagation == [][C15_Step]_vars /\ []C15_State

\* a first execute that ended FAILED on its second workstep, the first being COMPLETED
C15_Witness ==
    \E w \in Workflows :
        /\ C15_Case(w)
        /\ frame[w].pc = "idle"
        /\ Len(JournalOf(wfJournal, w)) = 2
        /\ \E i \in RowsOf(w) : i < call.id /\ wsTable[i].status = "COMPLETED"

C16_State ==
    /\ \A w \in Workflows :
           /\ \A k \in 1..Len(frame[w].caught) :
                  /\ wsTable[frame[w].caught[k]].status = "FAILED"
                  /\ wsTable[frame[w].caught[k]].workflow_instance_id = w
           /\ (frame[w].pc = "idle" /\ frame[w].result = "returned") =>
                  /\ wfTable[w].status = "COMPLETED"
                  /\ wfTable[w].end_time # NoTime
           /\ (stack # <<>> /\ Top = w /\ frame[w].pc = "body" /\ ~frame[w].nested) =>
                  context = WorkflowContext(w, wfObj[w])
    /\ (call.id # 0 /\ call.pc \notin {"returned", "raised"}) =>
           /\ stack # <<>>
           /\ wsTable[call.id].workflow_instance_id = Top
           /\ call.context = WorkflowContext(Top, wfObj[Top])

\* a committed FAILED workstep row is never written again
C16_Step ==
    \A i \in WorkSteps : wsTable[i].status = "FAILED" => wsTable'[i] = wsTable[i]

\* C16: when a body catches and suppresses a workstep's error and then returns, that
\* workstep's row stays FAILED, the worksteps the body calls afterwards run under the
\* same workflow instance and context, and the workflow row ends COMPLETED.
C16_CaughtAndSuppressed == [][C16_Step]_vars /\ []C16_State

\* an execute that returned after its body caught a workstep's error and ran a later
\* workstep to COMPLETED
C16_Witness ==
    \E w \in Workflows :
        /\ frame[w].pc = "idle"
        /\ frame[w].result = "returned"
        /\ wfTable[w].status = "COMPLETED"
        /\ Len(frame[w].caught) = 1
        /\ \E j \in RowsOf(w) : j > frame[w].caught[1] /\ wsTable[j].status = "COMPLETED"

\* C17: between the installation of its context and its exit, the innermost running
\* execute finds get_current_context() to be the context that carries its own
\* workflow row and policy; when no execute is running the context is none.
C17_ContextDuringExecute ==
    IF stack = <<>> THEN context = NoContext
    ELSE context = WorkflowContext(Top, wfObj[Top])

\* C18: with asynchronous executes interleaved as tasks of one thread, a workstep
\* called by the body of a workflow sees that workflow's context, and its row
\* references that workflow's instance.
C18_TaskContext ==
    (call.pc # "none" /\ call.caller # 0) =>
        /\ call.context = WorkflowContext(call.caller, wfObj[call.caller])
        /\ call.id # 0 => wsTable[call.id].workflow_instance_id = call.caller

\* C19: a workstep called when no workflow context exists inserts a row with a null
\* workflow id and, when the call has ended, that row is COMPLETED or FAILED.
C19_StandaloneRow ==
    (call.pc \in {"returned", "raised"} /\ call.context = NoContext) =>
        /\ call.id # 0
        /\ wsTable[call.id].workflow_instance_id = 0
        /\ wsTable[call.id].status \in {"COMPLETED", "FAILED"}

\* C20: a workstep whose user function is asynchronous, awaited by the body of a
\* running asynchronous workflow, has a row, and when the call has ended the attempt
\* loop has driven that row to COMPLETED or FAILED.
C20_AsyncWorkstepRow ==
    (call.is_async /\ call.pc \in {"returned", "raised"}) =>
        /\ call.id # 0
        /\ wsTable[call.id].status \in {"COMPLETED", "FAILED"}

\* C21: the workflow row is INSTANTIATED from the construction of the object until
\* execute starts, RUNNING while the body runs, and COMPLETED or FAILED whenever
\* execute has ended, whether the body returned, raised or was aborted.
C21_RowFollowsExecute ==
    \A w \in Workflows :
        /\ (frame[w].pc = "idle" /\ frame[w].result = "None")
               => wfTable[w].status = "INSTANTIATED"
        /\ frame[w].pc \in {"body", "awaiting", "raised"} => wfTable[w].status = "RUNNING"
        /\ (frame[w].pc = "idle" /\ frame[w].result # "None")
               => wfTable[w].status \in {"COMPLETED", "FAILED"}

\* a step that starts a workstep call inserts one row, INSTANTIATED, for that call
\* before any attempt; no other step inserts a workstep row
C22_Step ==
    IF call.pc \in {"none", "returned", "raised"} /\ call' # call
    THEN /\ Len(wsTable') = Len(wsTable) + 1
         /\ wsTable'[Len(wsTable')].status = "INSTANTIATED"
         /\ call'.id = Len(wsTable')
         /\ call'.outcomes = <<>>
    ELSE Len(wsTable') = Len(wsTable)

\* a call that has ended has its row, COMPLETED or FAILED
C22_State ==
    call.pc \in {"returned", "raised"} =>
        /\ call.id \in WorkSteps
        /\ wsTable[call.id].status \in {"COMPLETED", "FAILED"}

\* C22: each workstep call creates exactly one workstep row, in INSTANTIATED, before
\* the first attempt; retries insert no other row; when the call has ended the row
\* is COMPLETED or FAILED.
C22_OneRowPerCall == [][C22_Step]_vars /\ []C22_State

\* C23: when a workstep call has ended in failure, the error raised to the caller is
\* the one the last invocation of the user function raised, and by then the row's
\* transition to FAILED is journaled and the row is committed FAILED.
C23_RaisesLastError ==
    call.pc = "raised" =>
        /\ call.outcomes # <<>>
        /\ call.last_exception = call.outcomes[Len(call.outcomes)]
        /\ call.id \in WorkSteps
        /\ wsTable[call.id].status = "FAILED"
        /\ LastStatus(wsJournal, call.id) = "FAILED"

\* every workstep row that is not yet COMPLETED or FAILED is the row of the call in
\* progress and the newest row; rows of one workflow are in the order of their calls,
\* each ended before the next started; an attempt k is running only after k - 1
\* invocations have ended and k - 1 delays have been slept
C24_State ==
    /\ \A i \in WorkSteps :
           wsTable[i].status \notin {"COMPLETED", "FAILED"} =>
               /\ i = call.id
               /\ i = Len(wsTable)
               /\ call.pc \notin {"none", "returned", "raised"}
    /\ \A w \in Workflows : \A i \in RowsOf(w), j \in RowsOf(w) :
           (i < j /\ wsTable[j].start_time # NoTime) =>
               /\ wsTable[i].end_time # NoTime
               /\ wsTable[i].end_time < wsTable[j].start_time
    /\ call.pc = "func" =>
           /\ Len(call.outcomes) = call.attempt - 1
           /\ Len(call.delays) = call.attempt - 1
           /\ \A k \in 1..Len(call.outcomes) : call.outcomes[k] # "ok"

\* a row is created only when every earlier row is COMPLETED or FAILED; the attempt
\* number of a call goes up by one, in the step in which the running attempt ends
\* with an error and its delay is slept
C24_Step ==
    /\ Len(wsTable') > Len(wsTable) =>
           \A i \in WorkSteps : wsTable[i].status \in {"COMPLETED", "FAILED"}
    /\ (call'.id = call.id /\ call.id # 0 /\ call'.attempt # call.attempt) =>
           /\ call.pc = "func"
           /\ call'.attempt = call.attempt + 1
           /\ Len(call'.outcomes) = call.attempt
           /\ Len(call'.delays) = call.attempt
           /\ call'.delays[call.attempt] \in get_delay(call.policy, call.attempt)

\* C24: within one workflow instance worksteps run in the order the body invokes
\* them, a workstep's row reaches COMPLETED or FAILED before the row of the next
\* workstep is created, and attempt k+1 of a workstep starts only after attempt k has
\* ended and its delay has elapsed.
C24_SequentialSteps == [][C24_Step]_vars /\ []C24_State

\* a workstep that was retried has ended, and the next workstep of the same body is
\* running
C24_Witness ==
    \E w \in Workflows : \E i \in RowsOf(w), j \in RowsOf(w) :
        /\ i < j
        /\ wsTable[i].attempt_number = 2
        /\ wsTable[i].status \in {"COMPLETED", "FAILED"}
        /\ wsTable[j].status = "RUNNING"
        /\ call.id = j

\* C25 as stated: in both tables CANCELLED is a legal next state of every status
\* other than COMPLETED and CANCELLED, and those two have no legal next state.
C25_CancelFromAnyNonTerminal ==
    probe.table # "none" =>
        IF probe.status \in {"COMPLETED", "CANCELLED"}
        THEN probe.next = {}
        ELSE "CANCELLED" \in probe.next

\* C25, amended: in both tables CANCELLED is a legal next state of every status other
\* than INSTANTIATED, COMPLETED and CANCELLED; COMPLETED and CANCELLED have no legal
\* next state.
C25_CancelFromStarted ==
    probe.table # "none" =>
        CASE probe.status \in {"COMPLETED", "CANCELLED"} ->
                 probe.next = {} /\ probe.error = "KeyError"
          [] probe.status = "INSTANTIATED" -> probe.error = NoError
          [] OTHER -> "CANCELLED" \in probe.next /\ probe.error = NoError

\* a WAITING workstep has been asked its next states, and CANCELLED is one
C25_Witness ==
    /\ probe.table = "workstep"
    /\ probe.status = "WAITING"
    /\ "CANCELLED" \in probe.next

\* the lifecycle rows of a journal that reference none of the given instances
JournalOfOthers(journal, ids) == SelectSeq(journal, LAMBDA r : r.instance_id \notin ids)

\* a sweep leaves no workflow row older than its cutoff, none of the workstep rows of
\* such a workflow and no lifecycle row that references any of them; every other row
\* is as it was
C26_Step ==
    probe'.sweeps # probe.sweeps =>
        LET old == {w \in Workflows :
                        wfTable[w] # NoWfRow /\ wfTable[w].start_time < probe'.cutoff}
            steps == {i \in WorkSteps : wsTable[i].workflow_instance_id \in old}
        IN /\ \A w \in Workflows :
                  wfTable'[w] = IF w \in old THEN NoWfRow ELSE wfTable[w]
           /\ \A i \in WorkSteps :
                  wsTable'[i] = IF i \in steps THEN NoWsRow ELSE wsTable[i]
           /\ wfJournal' = JournalOfOthers(wfJournal, old)
           /\ wsJournal' = JournalOfOthers(wsJournal, steps)

\* C26: the retention sweep deletes every workflow row whose start_time is older than
\* the cutoff, with all its workstep rows and all workflow and workstep lifecycle rows
\* that reference them, and leaves every newer workflow row and its dependants
\* unchanged.
C26_SweepCascades == [][C26_Step]_vars

ExclusionKinds(p) ==
    {"ValueError"} \cup {kind \in ProbeKinds : UserExcluded(p, kind)}

\* C28: a Linear, Exponential or jitter policy answers should_retry(attempt, e) =
\* false when the kind of e is, exactly, one of the kinds of its exclusion list (a
\* strict subtype of an excluded kind is not excluded), and otherwise answers true
\* exactly when attempt <= max_retries.
C28_GeneralShouldRetry ==
    (probe.policy.kind \in {"Linear", "Exponential", "ExponentialJitter"}
         /\ probe.kind # NoError) =>
        probe.retry = IF probe.kind \in ExclusionKinds(probe.policy) THEN FALSE
                      ELSE probe.attempt <= probe.policy.max_retries

\* an error of kind kind is an instance of kind k in Python's hierarchy of built-in
\* errors: every kind is an Exception, and UnicodeError is a ValueError
IsA(kind, k) ==
    \/ kind = k
    \/ k = "Exception"
    \/ kind = "UnicodeError" /\ k = "ValueError"

\* C29: a Conditional policy answers should_retry(attempt, e) = true if and only if e
\* is an instance, subtypes included, of one of its retryable kinds and
\* attempt <= max_retries.
C29_ConditionalShouldRetry ==
    (probe.policy.kind = "Conditional" /\ probe.kind # NoError) =>
        probe.retry =
            /\ \E i \in DOMAIN probe.policy.retryable_exceptions :
                   IsA(probe.kind, probe.policy.retryable_exceptions[i])
            /\ probe.attempt <= probe.policy.max_retries

\* a Conditional policy that retries ValueError has answered true for a UnicodeError
C29_Witness ==
    /\ probe.policy.kind = "Conditional"
    /\ probe.policy.retryable_exceptions = <<"ValueError">>
    /\ probe.kind = "UnicodeError"
    /\ probe.attempt <= probe.policy.max_retries
    /\ probe.retry

\* min(base_delay * 2^(attempt-1), max_delay), by doubling under the cap
RECURSIVE CappedDoubling(_, _, _)
CappedDoubling(base_delay, max_delay, attempt) ==
    IF attempt <= 1 THEN Min(base_delay, max_delay)
    ELSE Min(2 * CappedDoubling(base_delay, max_delay, attempt - 1), max_delay)

\* C30: for an Exponential policy and every attempt >= 1, get_delay(attempt) returns
\* min(base_delay * 2^(attempt-1), max_delay): a delay that is never above max_delay
\* and never below the delay of the attempt before.
C30_ExponentialDelay ==
    (probe.policy.kind = "Exponential" /\ probe.attempt >= 1 /\ probe.kind = NoError) =>
        /\ probe.error = NoError
        /\ probe.delay =
               CappedDoubling(probe.policy.base_delay, probe.policy.max_delay, probe.attempt)
        /\ probe.delay <= probe.policy.max_delay
        /\ probe.attempt > 1 =>
               probe.delay >= CappedDoubling(probe.policy.base_delay,
                                             probe.policy.max_delay, probe.attempt - 1)

\* the sum of a sequence of numbers
RECURSIVE SumSeq(_)
SumSeq(seq) == IF seq = <<>> THEN 0 ELSE seq[1] + SumSeq(Tail(seq))

\* C31: under a Linear policy the delay taken after attempt i is base_delay * i, so
\* the delays of a call that has retried k times add up to base_delay * k(k+1)/2.
C31_LinearDelay ==
    (call.id # 0 /\ call.policy.kind = "Linear") =>
        /\ \A i \in DOMAIN call.delays : call.delays[i] = call.policy.base_delay * i
        /\ 2 * SumSeq(call.delays) =
               call.policy.base_delay * Len(call.delays) * (Len(call.delays) + 1)

\* a call under a Linear policy has ended after three retries
C31_Witness ==
    /\ call.id # 0
    /\ call.policy.kind = "Linear"
    /\ Len(call.delays) = 3
    /\ call.pc \in {"returned", "raised"}

\* the invocations of the user function the call in progress has started
InvocationsStarted == Len(call.outcomes) + (IF call.pc = "func" THEN 1 ELSE 0)

\* C32 as stated: at every commit of a workstep call, and when the call has ended, the
\* committed attempt_number is the number of invocations of the user function started
\* so far.
C32_AttemptsCounted ==
    call.id # 0 => wsTable[call.id].attempt_number = InvocationsStarted

\* C32, amended: at every commit of a workstep call after the insertion of the row,
\* and when the call has ended, the committed attempt_number is the number of
\* invocations of the user function started so far; the row as inserted carries
\* attempt_number 1 before any invocation.
C32_AttemptsCountedOnceBegun ==
    call.id # 0 =>
        IF wsTable[call.id].status = "INSTANTIATED"
        THEN wsTable[call.id].attempt_number = 1 /\ InvocationsStarted = 0
        ELSE wsTable[call.id].attempt_number = InvocationsStarted

\* the second invocation of the user function is running
C32_Witness ==
    /\ call.id # 0
    /\ call.pc = "func"
    /\ Len(call.outcomes) = 1
    /\ wsTable[call.id].attempt_number = 2

\* the statuses the engine writes
EngineStatuses == {"INSTANTIATED", "RUNNING", "COMPLETED", "FAILED"}

\* C33: after any sequence of constructions, executes and workstep calls, no workflow
\* or workstep row, committed or loaded, and no lifecycle entry carries CANCELLED,
\* PENDING, WAITING or PENDING_COMPLETION.
C33_EngineStatuses ==
    /\ \A w \in Workflows :
           /\ wfTable[w].status \in EngineStatuses
           /\ frame[w].pc # "idle" => frame[w].row.status \in EngineStatuses
    /\ \A i \in WorkSteps : wsTable[i].status \in EngineStatuses
    /\ call.id # 0 => call.row.status \in EngineStatuses
    /\ \A k \in DOMAIN wfJournal :
           wfJournal[k].from_state \in EngineStatuses /\ wfJournal[k].to_state \in EngineStatuses
    /\ \A k \in DOMAIN wsJournal :
           wsJournal[k].from_state \in EngineStatuses /\ wsJournal[k].to_state \in EngineStatuses

\* a workflow is running, one of its worksteps has completed and another has failed
C33_Witness ==
    /\ \E w \in Workflows : wfTable[w].status = "RUNNING"
    /\ \E i \in WorkSteps : wsTable[i].status = "COMPLETED"
    /\ \E i \in WorkSteps : wsTable[i].status = "FAILED"
    /\ \E k \in DOMAIN wsJournal : wsJournal[k].from_state = "INSTANTIATED"

----------------------------------------------------------------------------
(* C34: threads share only the store *)

\* the lifecycle rows a step made durable
NewlyDurable == SubSeq(wfJournal', Len(wfJournal) + 1, Len(wfJournal'))

\* the journal of instance w, with the rows still waiting, is the chain of the
\* statuses its thread has set, each once, ending at the status of its loaded row
ChainOf(w) ==
    LET chain == JournalOf(wfJournal \o pending, w)
    IN /\ \A i \in DOMAIN chain :
              chain[i].from_state = IF i = 1 THEN "INSTANTIATED" ELSE chain[i - 1].to_state
       /\ frame[w].pc \notin {"idle"} =>
              chain # <<>> /\ chain[Len(chain)].to_state = frame[w].row.status

\* C34: under every interleaving of two threads, each instance's journal holds exactly
\* the transitions of that instance, each once, and a step taken on behalf of one
\* instance makes durable no lifecycle row of another instance whose new status is
\* not committed
C34_SerialisedStatusChange ==
    /\ [](\A w \in Workflows : ChainOf(w))
    /\ [][\A w \in Workflows :
              frame'[w] = frame[w] =>
                  \A i \in DOMAIN NewlyDurable :
                      NewlyDurable[i].instance_id = w =>
                          wfTable'[w].status = NewlyDurable[i].to_state]_vars

----------------------------------------------------------------------------
(* C35: the policy methods as functions of their arguments *)

\* the last call on the policy object asks what an earlier call on it asked
SameQuestion ==
    /\ probe.policy # NoPolicy
    /\ probe.asked # "none"
    /\ probe.earlier.asked = probe.asked
    /\ probe.earlier.attempt = probe.attempt
    /\ probe.earlier.kind = probe.kind

\* and got the same answer: the same value, or the same error
SameAnswer == probe.earlier = Answer(probe)

----------------------------------------------------------------------------
(* C36, C37: the attempt loop *)

\* the workstep call in progress, or the last one, has ended
CallEnded == call.pc \in {"returned", "raised"}

\* the loop condition is about to fail: the code after the loop will run
FallsThrough == call.pc = "loop" /\ ~LoopContinues(call.policy, call.attempt)

\* C36: under every policy, one that always asks for a retry included, a workstep call
\* that has ended has invoked the user function at least once and at most
\* max_retries + 1 times, and the code after the attempt loop is never reached
C36_AttemptBound ==
    /\ call.pc # "none" => Len(call.outcomes) <= call.policy.max_retries + 1
    /\ CallEnded => Len(call.outcomes) >= 1
    /\ ~FallsThrough

\* the workstep call has started and has not ended
CallInProgress == call.pc \notin {"none", "returned", "raised"}

\* C37: every workstep call ends, returning or raising, whatever the user function
\* does in each invocation and whatever the policy answers, when every invocation
\* ends and every sleep ends
C37_CallTerminates == CallInProgress ~> CallEnded

\* a call under the policy that always asks for a retry has failed twice and has
\* not ended yet
C37_Witness ==
    /\ CallInProgress
    /\ call.policy.kind = "Always"
    /\ Len(call.outcomes) = 2

----------------------------------------------------------------------------
(* C38: the context after a nested execute *)

\* the step starts a workstep call
CallStarts == call.pc \in {"none", "returned", "raised"} /\ call' # call

\* a workstep call the body of the innermost running workflow makes after an execute
\* nested in it has ended sees the context of that workflow and gets a row under it
C38_Step ==
    (CallStarts /\ stack # <<>> /\ frame[Top].nested) =>
        /\ call'.context = WorkflowContext(Top, wfObj[Top])
        /\ call'.id \in 1..Len(wsTable')
        /\ wsTable'[call'.id].workflow_instance_id = Top

\* C38: after a workflow's body has run another workflow's execute to its end, the
\* outer workflow's context is the ambient context again: a workstep the outer body
\* invokes afterwards is recorded under the outer workflow's instance and session
C38_ContextAfterNested == [][C38_Step]_vars

----------------------------------------------------------------------------
(* C39: the journal of an instance as a chain *)

\* the lifecycle rows form a chain that starts at INSTANTIATED
IsChain(chain) ==
    \A i \in DOMAIN chain :
        chain[i].from_state = IF i = 1 THEN "INSTANTIATED" ELSE chain[i - 1].to_state

\* the journals of all instances are chains
JournalsAreChains ==
    /\ \A w \in Workflows : IsChain(JournalOf(wfJournal, w))
    /\ \A i \in WorkSteps : IsChain(JournalOf(wsJournal, i))

\* C39: the journal of every instance, in insertion order, is a connected chain from
\* INSTANTIATED, and where it has entries the last one leads to the status the
\* instance's row has in the store
C39_JournalChain ==
    /\ JournalsAreChains
    /\ \A w \in Workflows :
           JournalOf(wfJournal, w) # <<>> => LastStatus(wfJournal, w) = wfTable[w].status
    /\ \A i \in WorkSteps :
           JournalOf(wsJournal, i) # <<>> => LastStatus(wsJournal, i) = wsTable[i].status

----------------------------------------------------------------------------
(* C40: worksteps in flight and their workflow *)

\* every workstep row that is INSTANTIATED or RUNNING and references a workflow
\* references one whose row is RUNNING
C40_State ==
    \A i \in WorkSteps :
        (/\ wsTable[i].status \in {"INSTANTIATED", "RUNNING"}
         /\ wsTable[i].workflow_instance_id # 0)
            => /\ wsTable[i].workflow_instance_id \in Workflows
               /\ wfTable[wsTable[i].workflow_instance_id].status = "RUNNING"

\* a step that inserts a workstep row inserts it under a workflow row that is RUNNING
C40_Step ==
    Len(wsTable') > Len(wsTable) =>
        LET parent == wsTable'[Len(wsTable')].workflow_instance_id
        IN /\ parent \in Workflows
           /\ wfTable[parent].status = "RUNNING"

\* C40: whenever a workstep row that references a workflow instance is INSTANTIATED
\* or RUNNING, the referenced workflow row is RUNNING; no workstep row is created
\* under a workflow row that is INSTANTIATED, COMPLETED or FAILED
C40_StepsUnderRunningWorkflow == []C40_State /\ [][C40_Step]_vars

\* a workstep is being retried under a running workflow, after an earlier workstep
\* of that workflow has ended
C40_Witness ==
    \E i \in WorkSteps :
        /\ wsTable[i].status = "RUNNING"
        /\ wsTable[i].attempt_number = 2
        /\ wfTable[wsTable[i].workflow_instance_id].status = "RUNNING"
        /\ \E j \in WorkSteps :
               /\ wsTable[j].workflow_instance_id = wsTable[i].workflow_instance_id
               /\ wsTable[j].status \in {"COMPLETED", "FAILED"}

====
